---- MODULE Spec2Model ----
(***************************************************************************)
(* Event ingestion and idempotent processing of the commerce analytics     *)
(* platform: the Event model (app/models/event.py), the event repository   *)
(* (app/repositories/event_repository.py, base_repository.py) and the      *)
(* ingestion / worker flows of spec.md that are built from them.           *)
(* Also the idempotency-key functions (app/core/idempotency.py), the retry  *)
(* backoff over app/core/constants.py, and the orders repository           *)
(* (app/repositories/order_repository.py).                                 *)
(*                                                                         *)
(* Python's None is the empty tuple None, and an Optional value x is <<x>>.*)
(***************************************************************************)
EXTENDS Integers, Sequences, FiniteSets, TLC

VARIABLES
    events,     \* the rows of table "events", in insertion order; id = index
    now,        \* the clock read by datetime.utcnow()
    last,       \* the last operation performed, its arguments and how it ended
    pc,         \* each worker's position in its flow
    held,       \* each worker's session copy of the Event row it loaded
    outcome,    \* each worker's last ingest outcome
    inserts,    \* per idempotency key: inserts the store accepted
    conflicts,  \* per idempotency key: inserts the store refused
    mutations,  \* per idempotency key: domain-entity mutations applied
    ingests,    \* per worker: ingest calls made so far
    orders,     \* the rows of table "orders", in insertion order; id = index
    tenants,    \* the rows of table "tenants", in insertion order; id = index
    session     \* the database session of the block being run, if any

vars == <<events, now, last, pc, held, outcome, inserts, conflicts, mutations, ingests,
          orders, tenants, session>>

----------------------------------------------------------------------------
\* Bounds of the model

MaxClock == 1           \* last instant of the clock
MaxRetryCount == 5      \* failure calls made on one event
MaxIngests == 2         \* ingest calls per worker
MaxAttempts == 2        \* failed attempts on one event of the queue

\* Program constants

MAX_RETRY_ATTEMPTS == 5
SmallMaxRetries == 2

----------------------------------------------------------------------------
\* Retry backoff (spec.md 4.5) over the constants of app/core/constants.py

RETRY_BASE_DELAY_SECONDS == 5

\* a ceiling of ten minutes
RETRY_MAX_DELAY_SECONDS_doubled == 2 * 300

RETRY_MAX_DELAY_SECONDS == 300
EVENT_PROCESSING_TIMEOUT_SECONDS == 300

MaxBackoffRetryCount == 10      \* largest retry_count a delay is computed for

Min(a, b) == IF a < b THEN a ELSE b

\* min(base_delay * 2^retry_count, max_delay)
backoff_delay(retry_count) ==
    Min(RETRY_BASE_DELAY_SECONDS * 2 ^ retry_count, RETRY_MAX_DELAY_SECONDS)

----------------------------------------------------------------------------
\* Values

None == <<>>
Some(x) == <<x>>

PENDING == "pending"
PROCESSING == "processing"
COMPLETED == "completed"
FAILED == "failed"
DEAD_LETTER == "dead_letter"

EventStatus == {PENDING, PROCESSING, COMPLETED, FAILED, DEAD_LETTER}

Workers == {"w1", "w2"}

ErrorMessages == {"timeout", "connection reset", "Schema validation failed"}

\* the message of SchemaValidationException, a failure no retry can cure
NonTransientErrors == {"Schema validation failed"}

\* max_retries arguments a caller passes (the default and a smaller one)
MaxRetriesArgs == {SmallMaxRetries, MAX_RETRY_ATTEMPTS}

\* The deliveries the upstream platform makes: the same order event twice
\* over (same timestamp), a later update of it, and another tenant's event.
Deliveries ==
    { [tenant_id |-> 1, entity_type |-> "order", entity_id |-> "12345",
       event_type |-> "orders/create", timestamp |-> 0],
      [tenant_id |-> 1, entity_type |-> "order", entity_id |-> "12345",
       event_type |-> "orders/create", timestamp |-> 1],
      [tenant_id |-> 2, entity_type |-> "order", entity_id |-> "12345",
       event_type |-> "orders/create", timestamp |-> 0] }

\* Text.  A str is the sequence of its pieces: ":" and " " are the characters
\* themselves, any other piece is a run of characters holding neither.
Text(s) == <<s>>

IntValues == (-1 .. 2) \cup {12345}

\* str(n) of an int
str(n) == <<ToString(n)>>

\* s.strip()
RECURSIVE lstrip(_)
lstrip(s) == IF s # <<>> /\ Head(s) = " " THEN lstrip(Tail(s)) ELSE s

RECURSIVE rstrip(_)
rstrip(s) ==
    IF s # <<>> /\ s[Len(s)] = " " THEN rstrip(SubSeq(s, 1, Len(s) - 1)) ELSE s

strip(s) == rstrip(lstrip(s))

\* int(s): Some(n), or None where Python raises ValueError
int(s) ==
    IF \E n \in IntValues : strip(s) = str(n)
    THEN Some(CHOOSE n \in IntValues : strip(s) = str(n))
    ELSE None

\* s.split(":")
RECURSIVE split(_)
split(s) ==
    IF \E i \in 1 .. Len(s) : s[i] = ":"
    THEN LET i == CHOOSE i \in 1 .. Len(s) :
                      s[i] = ":" /\ \A j \in 1 .. i - 1 : s[j] # ":"
         IN <<SubSeq(s, 1, i - 1)>> \o split(SubSeq(s, i + 1, Len(s)))
    ELSE <<s>>

\* ":".join(parts)
RECURSIVE join(_)
join(parts) ==
    IF parts = <<>> THEN <<>>
    ELSE IF Len(parts) = 1 THEN parts[1]
    ELSE parts[1] \o <<":">> \o join(Tail(parts))

\* the date of the timestamp alone
isoformat_date(timestamp) == <<"1970-01-01">>

\* timestamp.isoformat(), the timestamp counted in seconds
isoformat(timestamp) == <<"1970-01-01T00", ":", "00", ":", ToString(timestamp)>>

\* How a call of a function ends: its return value, or the exception raised
Return(value) == [raised |-> FALSE, value |-> value]
Raise(exception) == [raised |-> TRUE, value |-> exception]

ValidationException == "ValidationException"

\* hashlib.sha256(hash_input.encode()).hexdigest()[:16]: the digest is kept as
\* the printed form of the input it is computed from, one piece free of ":".
sha256_16(hash_input) == ToString(<<"sha256", hash_input>>)

\* `not s or not s.strip()`
blank(s) == s = <<>> \/ strip(s) = <<>>

\* generate_idempotency_key: {tenant_id}:{entity_type}:{entity_id}:{event_type}:{hash},
\* the hash being the digest of {tenant_id}:{entity_id}:{event_type}:{timestamp}.
generate_idempotency_key(tenant_id, entity_type, entity_id, event_type, timestamp) ==
    IF tenant_id <= 0 THEN Raise(ValidationException)
    ELSE IF blank(entity_type) THEN Raise(ValidationException)
    ELSE IF blank(entity_id) THEN Raise(ValidationException)
    ELSE IF blank(event_type) THEN Raise(ValidationException)
    ELSE LET hash_input == join(<<str(tenant_id), entity_id, event_type,
                                  isoformat(timestamp)>>)
             hash_short == sha256_16(hash_input)
         IN Return(join(<<str(tenant_id), entity_type, entity_id, event_type,
                          <<hash_short>> >>))

\* generate_simple_idempotency_key: {tenant_id}:{entity_type}:{entity_id}:{event_type}
generate_simple_idempotency_key(tenant_id, entity_type, entity_id, event_type) ==
    Return(join(<<str(tenant_id), entity_type, entity_id, event_type>>))

\* parse_idempotency_key
parse_idempotency_key(key) ==
    LET parts == split(key) IN
    IF Len(parts) < 4 THEN Raise(ValidationException)
    ELSE IF int(parts[1]) = None THEN Raise(ValidationException)
    ELSE Return([ tenant_id   |-> int(parts[1])[1],
                  entity_type |-> parts[2],
                  entity_id   |-> parts[3],
                  event_type  |-> IF Len(parts) > 4
                                  THEN join(SubSeq(parts, 4, Len(parts) - 1))
                                  ELSE parts[4],
                  hash        |-> IF Len(parts) > 4
                                  THEN Some(parts[Len(parts)])
                                  ELSE None ])

\* validate_idempotency_key
validate_idempotency_key(key) == ~parse_idempotency_key(key).raised

KeyOf(d) ==
    generate_idempotency_key(d.tenant_id, Text(d.entity_type), Text(d.entity_id),
                             Text(d.event_type), d.timestamp).value

Keys == { KeyOf(d) : d \in Deliveries }

\* the deliveries of one tenant
DeliveriesOf(tenant_id) == { d \in Deliveries : d.tenant_id = tenant_id }

----------------------------------------------------------------------------
\* The Event model

\* Event.__init__: status, retry_count and received_at default to pending, 0, utcnow()
NewEvent(d, idempotency_key, t) ==
    [ tenant_id       |-> d.tenant_id,
      event_type      |-> d.event_type,
      entity_type     |-> d.entity_type,
      entity_id       |-> d.entity_id,
      idempotency_key |-> idempotency_key,
      payload         |-> <<"payload", d.entity_id, d.timestamp>>,
      status          |-> PENDING,
      received_at     |-> t,
      processed_at    |-> None,
      retry_count     |-> 0,
      error_message   |-> None,
      correlation_id  |-> None ]

\* mark_as_processing wiping the trace of the last failure as well
mark_as_processing_clearing(ev) ==
    [ev EXCEPT !.status = PROCESSING, !.error_message = None]

mark_as_processing(ev) ==
    [ev EXCEPT !.status = PROCESSING]

mark_as_completed(ev, t) ==
    [ev EXCEPT !.status = COMPLETED, !.processed_at = Some(t)]

\* mark_as_failed comparing with > instead of >=
mark_as_failed_late(ev, error_message, max_retries, t) ==
    LET n == ev.retry_count + 1 IN
    IF n > max_retries
    THEN [ev EXCEPT !.retry_count = n, !.error_message = Some(error_message),
                    !.status = DEAD_LETTER, !.processed_at = Some(t)]
    ELSE [ev EXCEPT !.retry_count = n, !.error_message = Some(error_message),
                    !.status = FAILED]

\* mark_as_failed keeping the message of the first failure
mark_as_failed_first_message(ev, error_message, max_retries, t) ==
    LET n == ev.retry_count + 1
        m == IF ev.error_message = None THEN Some(error_message) ELSE ev.error_message
    IN IF n >= max_retries
       THEN [ev EXCEPT !.retry_count = n, !.error_message = m,
                       !.status = DEAD_LETTER, !.processed_at = Some(t)]
       ELSE [ev EXCEPT !.retry_count = n, !.error_message = m, !.status = FAILED]

mark_as_failed(ev, error_message, max_retries, t) ==
    LET n == ev.retry_count + 1 IN
    IF n >= max_retries
    THEN [ev EXCEPT !.retry_count = n, !.error_message = Some(error_message),
                    !.status = DEAD_LETTER, !.processed_at = Some(t)]
    ELSE [ev EXCEPT !.retry_count = n, !.error_message = Some(error_message),
                    !.status = FAILED]

\* reset_for_retry zeroing the retry budget as well
reset_for_retry_zeroing(ev) ==
    IF ev.status = FAILED
    THEN [ev EXCEPT !.status = PENDING, !.error_message = None, !.retry_count = 0]
    ELSE ev

\* reset_for_retry without its status test
reset_for_retry_unguarded(ev) ==
    [ev EXCEPT !.status = PENDING, !.error_message = None]

reset_for_retry(ev) ==
    IF ev.status = FAILED
    THEN [ev EXCEPT !.status = PENDING, !.error_message = None]
    ELSE ev

is_retriable(ev) == ev.status = FAILED

is_terminal(ev) == ev.status \in {COMPLETED, DEAD_LETTER}

----------------------------------------------------------------------------
\* The event repository

Ids == 1..Len(events)

\* a uniqueness test that looks at the pending rows only
UniqueViolation_pending_only(rows, obj) ==
    \E i \in 1..Len(rows) :
        rows[i].idempotency_key = obj.idempotency_key /\ rows[i].status = PENDING

\* the unique constraint on events.idempotency_key
UniqueViolation(rows, obj) ==
    \E i \in 1..Len(rows) : rows[i].idempotency_key = obj.idempotency_key

\* create on a table without the unique constraint
create_unchecked(rows, obj) ==
    Append(rows, obj)

\* BaseRepository.create: add + flush; the INSERT is refused on a unique violation
create(rows, obj) ==
    IF UniqueViolation(rows, obj) THEN rows ELSE Append(rows, obj)

\* BaseRepository.update: flush writes the columns of row id that obj changed
\* since the session loaded it (UPDATE ... WHERE id = :id), whatever the row
\* holds by now
update(rows, id, loaded, obj) ==
    [rows EXCEPT ![id] =
        [f \in DOMAIN obj |-> IF obj[f] # loaded[f] THEN obj[f] ELSE @[f]]]

get_by_idempotency_key(idempotency_key) ==
    { i \in Ids : events[i].idempotency_key = idempotency_key }

\* ORDER BY received_at: every arrangement of the ids that is ascending in
\* received_at (rows received at the same instant come in either order)
OrderedByReceivedAt(S) ==
    { s \in [1..Cardinality(S) -> S] :
        /\ \A i, j \in 1..Cardinality(S) : i < j => s[i] # s[j]
        /\ \A i, j \in 1..Cardinality(S) :
              i < j => events[s[i]].received_at <= events[s[j]].received_at }

\* the sweep's filter without its status test
FailedRetriable_any_status(ev, max_retries) ==
    ev.retry_count < max_retries

FailedRetriable(ev, max_retries) ==
    ev.status = FAILED /\ ev.retry_count < max_retries

get_failed_retriable_events(max_retries) ==
    OrderedByReceivedAt({ i \in Ids : FailedRetriable(events[i], max_retries) })

get_pending_events ==
    OrderedByReceivedAt({ i \in Ids : events[i].status = PENDING })

----------------------------------------------------------------------------
\* What an operation leaves in last

NoCall == [op |-> "none", id |-> 0, worker |-> "none", error_message |-> None,
           max_retries |-> 0, raised |-> FALSE, result |-> <<>>, args |-> <<>>]

Call(op, id) == [NoCall EXCEPT !.op = op, !.id = id]

\* the record of a call that took args and ended as r
Returned(op, args, r) ==
    [Call(op, 0) EXCEPT !.args = args, !.raised = r.raised, !.result = Some(r.value)]

WorkersIdle ==
    /\ pc = [w \in Workers |-> "idle"]
    /\ held = [w \in Workers |-> None]
    /\ outcome = [w \in Workers |-> "none"]
    /\ inserts = [k \in Keys |-> 0]
    /\ conflicts = [k \in Keys |-> 0]
    /\ mutations = [k \in Keys |-> 0]
    /\ ingests = [w \in Workers |-> 0]

workerVars == <<pc, held, outcome, inserts, conflicts, mutations, ingests>>

\* no session block is being run
NoSession ==
    [state |-> "none", block |-> FALSE, kind |-> "none", events |-> <<>>,
     orders |-> <<>>]

Init ==
    /\ events = <<>>
    /\ now = 0
    /\ last = NoCall
    /\ WorkersIdle
    /\ orders = <<>>
    /\ tenants = <<>>
    /\ session = NoSession

----------------------------------------------------------------------------
\* Calls on the Event API

Tick ==
    /\ now < MaxClock
    /\ now' = now + 1
    /\ last' = Call("tick", 0)
    /\ UNCHANGED <<tenants, session, orders, events, workerVars>>

\* EventRepository.create(Event(...)) with the derived idempotency key
CreateEvent(d) ==
    /\ LET obj == NewEvent(d, KeyOf(d), now) IN
         /\ events' = create(events, obj)
         /\ last' = [Call("create", Len(events')) EXCEPT
                        !.raised = UniqueViolation(events, obj)]
    /\ UNCHANGED <<tenants, session, orders, now, workerVars>>

MarkAsProcessing(i) ==
    /\ events' = [events EXCEPT ![i] = mark_as_processing(@)]
    /\ last' = Call("mark_as_processing", i)
    /\ UNCHANGED <<tenants, session, orders, now, workerVars>>

MarkAsCompleted(i) ==
    /\ events' = [events EXCEPT ![i] = mark_as_completed(@, now)]
    /\ last' = Call("mark_as_completed", i)
    /\ UNCHANGED <<tenants, session, orders, now, workerVars>>

MarkAsFailed(i, error_message, max_retries) ==
    /\ events' = [events EXCEPT ![i] = mark_as_failed(@, error_message, max_retries, now)]
    /\ last' = [Call("mark_as_failed", i) EXCEPT
                   !.error_message = Some(error_message), !.max_retries = max_retries]
    /\ UNCHANGED <<tenants, session, orders, now, workerVars>>

ResetForRetry(i) ==
    /\ events' = [events EXCEPT ![i] = reset_for_retry(@)]
    /\ last' = Call("reset_for_retry", i)
    /\ UNCHANGED <<tenants, session, orders, now, workerVars>>

\* The life of one event record: after its creation, the methods of Event are
\* called on it in any order and with any arguments.
Next ==
    \/ Tick
    \/ \E d \in Deliveries : events = <<>> /\ CreateEvent(d)
    \/ \E i \in Ids : MarkAsProcessing(i)
    \/ \E i \in Ids : MarkAsCompleted(i)
    \/ \E i \in Ids, m \in ErrorMessages, r \in MaxRetriesArgs :
          events[i].retry_count < MaxRetryCount /\ MarkAsFailed(i, m, r)
    \/ \E i \in Ids : ResetForRetry(i)

Spec == Init /\ [][Next]_vars

----------------------------------------------------------------------------
\* Properties of one event record (specification Spec)

EventMethods ==
    {"mark_as_processing", "mark_as_completed", "mark_as_failed", "reset_for_retry"}

\* the edges of the state machine of EventStatus
Edges ==
    { <<PENDING, PROCESSING>>, <<PROCESSING, COMPLETED>>, <<PROCESSING, FAILED>>,
      <<PROCESSING, DEAD_LETTER>>, <<FAILED, PENDING>> }

\* C3: in any sequence of calls to mark_as_processing, mark_as_completed,
\* mark_as_failed and reset_for_retry the status changes only along the edges
\* of the state machine: from pending only to processing, from processing
\* only to completed, failed or dead_letter.
C3_StatusFollowsEdges ==
    [][\A i \in Ids :
          events'[i].status # events[i].status
              => <<events[i].status, events'[i].status>> \in Edges]_vars

\* C4: one mark_as_failed(error_message, max_retries) call adds exactly 1 to
\* retry_count, records error_message and decides the destination in that
\* step: dead_letter with processed_at set iff the new retry_count >=
\* max_retries, otherwise failed with processed_at not set by the call.
C4_FailureCallDecides ==
    [][last'.op = "mark_as_failed" =>
          LET e  == events[last'.id]
              e2 == events'[last'.id]
              n  == e.retry_count + 1
          IN  /\ e2.retry_count = n
              /\ e2.error_message = last'.error_message
              /\ e2.status = IF n >= last'.max_retries THEN DEAD_LETTER ELSE FAILED
              /\ e2.processed_at = IF n >= last'.max_retries THEN Some(now)
                                                              ELSE e.processed_at
              /\ (e.processed_at = None /\ n < last'.max_retries
                     => e2.processed_at = None)]_vars

\* the failure call that makes retry_count reach the default max_retries
\* (4 -> 5) has dead-lettered the event
C4_Witness ==
    /\ last.op = "mark_as_failed"
    /\ last.max_retries = MAX_RETRY_ATTEMPTS
    /\ events[last.id].retry_count = MAX_RETRY_ATTEMPTS
    /\ events[last.id].status = DEAD_LETTER
    /\ events[last.id].processed_at # None

\* C5: a call of mark_as_processing, mark_as_completed, mark_as_failed or
\* reset_for_retry on an event in completed or dead_letter is reported as a
\* caller error and leaves the record unchanged.
C5_TerminalCallsRejected ==
    [][(last'.op \in EventMethods /\ is_terminal(events[last'.id]))
          => (last'.raised /\ events'[last'.id] = events[last'.id])]_vars

\* C7: retry_count starts at 0, is never negative, never decreases, and
\* changes only in a failure call, by exactly 1; claiming, completion and
\* reset for retry leave it unchanged.
C7_RetryCountMonotonic ==
    [][\A i \in 1..Len(events') :
          IF i \in Ids
          THEN /\ events'[i].retry_count >= events[i].retry_count
               /\ events[i].retry_count >= 0
               /\ events'[i].retry_count # events[i].retry_count
                     => /\ last'.op = "mark_as_failed"
                        /\ last'.id = i
                        /\ events'[i].retry_count = events[i].retry_count + 1
          ELSE events'[i].retry_count = 0]_vars

\* an event that failed twice has been reset for retry and kept its count
C7_Witness ==
    /\ last.op = "reset_for_retry"
    /\ events[last.id].status = PENDING
    /\ events[last.id].retry_count = 2

\* C8: once an event is completed or dead_letter its status never changes
\* again, whatever is called on it.
C8_TerminalAbsorbing ==
    [][\A i \in Ids :
          is_terminal(events[i]) => events'[i].status = events[i].status]_vars

\* C9: reset_for_retry on a failed event sets status to pending and clears
\* error_message and changes nothing else; on an event in any other status
\* it changes no field at all.
C9_ResetFrame ==
    [][last'.op = "reset_for_retry" =>
          LET e  == events[last'.id]
              e2 == events'[last'.id]
          IN  /\ Len(events') = Len(events)
              /\ \A j \in Ids : j # last'.id => events'[j] = events[j]
              /\ e.status = FAILED
                    => e2 = [e EXCEPT !.status = PENDING, !.error_message = None]
              /\ e.status # FAILED => e2 = e]_vars

\* reset_for_retry was called on a dead-lettered event, which still is one
\* and still carries its error message
C9_Witness ==
    /\ last.op = "reset_for_retry"
    /\ events[last.id].status = DEAD_LETTER
    /\ events[last.id].error_message # None
    /\ events[last.id].processed_at # None

\* C14: a failure with a non-transient error sends the event straight to
\* dead_letter, on the first failure and whatever its retry_count; a failure
\* with a retriable error sends it to failed while retries are left.
C14_NonTransientDeadLetters ==
    [][last'.op = "mark_as_failed" =>
          LET i == last'.id IN
          IF last'.error_message[1] \in NonTransientErrors
          THEN events'[i].status = DEAD_LETTER
          ELSE (events[i].retry_count + 1 < last'.max_retries
                   => events'[i].status = FAILED)]_vars

\* C22: no method of Event changes payload, idempotency_key, tenant_id,
\* event_type, entity_type, entity_id or received_at of the event, and
\* mark_as_processing changes nothing but status.
C22_IdentityImmutable ==
    [][last'.op \in EventMethods =>
          LET e  == events[last'.id]
              e2 == events'[last'.id]
          IN  /\ e2.payload = e.payload
              /\ e2.idempotency_key = e.idempotency_key
              /\ e2.tenant_id = e.tenant_id
              /\ e2.event_type = e.event_type
              /\ e2.entity_type = e.entity_type
              /\ e2.entity_id = e.entity_id
              /\ e2.received_at = e.received_at
              /\ last'.op = "mark_as_processing" =>
                    e2 = [e EXCEPT !.status = e2.status]]_vars

\* an event that failed once was claimed again, later than it was received:
\* it still carries its error message and its time of reception
C22_Witness ==
    /\ last.op = "mark_as_processing"
    /\ events[last.id].status = PROCESSING
    /\ events[last.id].retry_count = 1
    /\ events[last.id].error_message # None
    /\ events[last.id].received_at < now

\* C26: whatever calls were made on an event since its creation,
\* processed_at is set exactly when the event is completed or dead_letter.
C26_ProcessedAtIffTerminal ==
    \A i \in Ids : events[i].processed_at # None <=> is_terminal(events[i])

\* C29: a pending event has no error_message, and a failed or dead_letter
\* event carries the message of the latest failure call made on it: every
\* failure call stores its message, and no other call that leaves the event
\* failed or dead_letter touches it.
C29_ErrorMessageOfLatestFailure ==
    [][\A i \in 1 .. Len(events') :
          /\ events'[i].status = PENDING => events'[i].error_message = None
          /\ (last'.op = "mark_as_failed" /\ last'.id = i) =>
                /\ events'[i].status \in {FAILED, DEAD_LETTER}
                /\ events'[i].error_message = last'.error_message
          /\ (~(last'.op = "mark_as_failed" /\ last'.id = i)
              /\ events'[i].status \in {FAILED, DEAD_LETTER}) =>
                /\ i \in Ids
                /\ events[i].status \in {FAILED, DEAD_LETTER}
                /\ events'[i].error_message = events[i].error_message]_vars

\* a second failure, with another message than the first, then a reset
C29_Witness ==
    /\ last.op = "reset_for_retry"
    /\ events[last.id].status = PENDING
    /\ events[last.id].retry_count = 2
    /\ events[last.id].error_message = None

----------------------------------------------------------------------------
\* Ingestion (spec.md 4.4): a worker derives the key, inserts the event, and
\* on a successful insert claims it, applies its payload and records the end

Copy(i) == Some([id |-> i, row |-> events[i]])

HeldId(w) == held[w][1].id

HeldRow(w) == held[w][1].row

Bump(f, k) == [f EXCEPT ![k] = @ + 1]

\* step 1-2: EventRepository.create(Event(...)); a refused insert is the
\* outcome duplicate, and the worker is done
IngestInsert(w, d) ==
    /\ pc[w] = "idle"
    /\ ingests[w] < MaxIngests
    /\ LET key == KeyOf(d)
           obj == NewEvent(d, key, now)
           rows == create(events, obj)
           accepted == Len(rows) > Len(events)
       IN  /\ events' = rows
           /\ ingests' = Bump(ingests, w)
           /\ last' = [Call("ingest", IF accepted THEN Len(rows) ELSE 0) EXCEPT
                          !.worker = w, !.result = key]
           /\ IF accepted
              THEN /\ inserts' = Bump(inserts, key)
                   /\ outcome' = [outcome EXCEPT ![w] = "accepted"]
                   /\ held' = [held EXCEPT ![w] = Some([id |-> Len(rows), row |-> obj])]
                   /\ pc' = [pc EXCEPT ![w] = "inserted"]
                   /\ UNCHANGED conflicts
              ELSE /\ conflicts' = Bump(conflicts, key)
                   /\ outcome' = [outcome EXCEPT ![w] = "duplicate"]
                   /\ UNCHANGED <<inserts, held, pc>>
    /\ UNCHANGED <<tenants, session, orders, now, mutations>>

\* step 3: pending -> processing on the event the worker inserted
IngestClaim(w) ==
    /\ pc[w] = "inserted"
    /\ LET obj == mark_as_processing(HeldRow(w)) IN
         /\ events' = update(events, HeldId(w), HeldRow(w), obj)
         /\ held' = [held EXCEPT ![w] = Some([id |-> HeldId(w), row |-> obj])]
    /\ pc' = [pc EXCEPT ![w] = "processing"]
    /\ last' = [Call("mark_as_processing", HeldId(w)) EXCEPT !.worker = w]
    /\ UNCHANGED <<tenants, session, orders, now, outcome, inserts, conflicts, mutations, ingests>>

\* step 4: the apply succeeded: the entity is mutated and the event completed
IngestApplied(w) ==
    /\ pc[w] = "processing"
    /\ LET obj == mark_as_completed(HeldRow(w), now) IN
         events' = update(events, HeldId(w), HeldRow(w), obj)
    /\ mutations' = Bump(mutations, HeldRow(w).idempotency_key)
    /\ held' = [held EXCEPT ![w] = None]
    /\ pc' = [pc EXCEPT ![w] = "idle"]
    /\ last' = [Call("mark_as_completed", HeldId(w)) EXCEPT !.worker = w]
    /\ UNCHANGED <<tenants, session, orders, now, outcome, inserts, conflicts, ingests>>

\* step 4: the apply failed: no mutation, and the failure is recorded
IngestApplyFailed(w, error_message) ==
    /\ pc[w] = "processing"
    /\ LET obj == mark_as_failed(HeldRow(w), error_message, MAX_RETRY_ATTEMPTS, now) IN
         events' = update(events, HeldId(w), HeldRow(w), obj)
    /\ held' = [held EXCEPT ![w] = None]
    /\ pc' = [pc EXCEPT ![w] = "idle"]
    /\ last' = [Call("mark_as_failed", HeldId(w)) EXCEPT
                   !.worker = w, !.error_message = Some(error_message),
                   !.max_retries = MAX_RETRY_ATTEMPTS]
    /\ UNCHANGED <<tenants, session, orders, now, outcome, inserts, conflicts, mutations, ingests>>

NextIngest ==
    \/ \E w \in Workers, d \in Deliveries : IngestInsert(w, d)
    \/ \E w \in Workers : IngestClaim(w)
    \/ \E w \in Workers : IngestApplied(w)
    \/ \E w \in Workers, m \in ErrorMessages : IngestApplyFailed(w, m)

SpecIngest == Init /\ [][NextIngest]_vars

\* C1: ingesting the same delivery twice leaves exactly one event with its
\* idempotency key in the store (whatever the tenant); an ingest whose key is
\* already stored ends as duplicate, without an error, inserts nothing and
\* mutates no entity.
C1_DuplicateIngestShortCircuits ==
    [][/\ \A k \in Keys :
            LET stored == { i \in 1..Len(events') : events'[i].idempotency_key = k } IN
            /\ Cardinality(stored) <= 1
            /\ inserts'[k] + conflicts'[k] >= 1 => Cardinality(stored) = 1
            /\ mutations'[k] <= 1
       /\ (last'.op = "ingest" /\ get_by_idempotency_key(last'.result) # {})
             => /\ outcome'[last'.worker] = "duplicate"
                /\ ~last'.raised
                /\ events' = events
                /\ mutations' = mutations
                /\ pc'[last'.worker] = "idle"]_vars

\* a delivery was ingested, applied and completed, and then ingested again
C1_Witness ==
    /\ last.op = "ingest"
    /\ outcome[last.worker] = "duplicate"
    /\ inserts[last.result] = 1
    /\ conflicts[last.result] = 1
    /\ mutations[last.result] = 1
    /\ \A w \in Workers : pc[w] = "idle"

\* C2: when two workers ingest the same key concurrently, in every
\* interleaving the store accepts exactly one insert and refuses the other;
\* the refused worker ends as duplicate and mutates nothing, so the entity is
\* mutated at most once, and exactly once when the event is completed.
C2_OneInsertWins ==
    \A k \in Keys :
        /\ inserts[k] <= 1
        /\ inserts[k] + conflicts[k] >= 1 => inserts[k] = 1
        /\ mutations[k] <= inserts[k]
        /\ \A i \in get_by_idempotency_key(k) :
              events[i].status = COMPLETED => mutations[k] = 1
        /\ \A w \in Workers :
              pc[w] # "idle" =>
                 (outcome[w] = "accepted" /\ HeldId(w) \in get_by_idempotency_key(HeldRow(w).idempotency_key))
        /\ Cardinality({ w \in Workers :
                           pc[w] # "idle" /\ HeldRow(w).idempotency_key = k }) <= 1

\* one worker is still processing the event it inserted when the other
\* worker's ingest of the same key is refused
C2_Witness ==
    \E w1, w2 \in Workers :
        /\ w1 # w2
        /\ pc[w1] = "processing"
        /\ last.op = "ingest"
        /\ last.worker = w2
        /\ last.result = HeldRow(w1).idempotency_key
        /\ outcome[w2] = "duplicate"
        /\ inserts[last.result] = 1
        /\ conflicts[last.result] = 1
        /\ mutations[last.result] = 0

----------------------------------------------------------------------------
\* Queue workers and retry sweeps (spec.md 4.5, 5) on the events of one
\* tenant: each works in a database session of its own, on the copy of the row
\* that its query loaded

\* a worker takes an event of get_pending_events() into its session
SelectPending(w) ==
    /\ pc[w] = "idle"
    /\ \E r \in get_pending_events :
         /\ r # <<>>
         /\ \E n \in 1..Len(r) :
              /\ held' = [held EXCEPT ![w] = Copy(r[n])]
              /\ last' = [Call("get_pending_events", r[n]) EXCEPT
                             !.worker = w, !.result = r]
    /\ pc' = [pc EXCEPT ![w] = "selected"]
    /\ UNCHANGED <<tenants, session, orders, events, now, outcome, inserts, conflicts, mutations, ingests>>

\* the worker claims it: mark_as_processing() and update()
Claim(w) ==
    /\ pc[w] = "selected"
    /\ LET obj == mark_as_processing(HeldRow(w))
           rows == update(events, HeldId(w), HeldRow(w), obj)
       IN  /\ events' = rows
           /\ held' = [held EXCEPT ![w] = Some([id |-> HeldId(w), row |-> rows[HeldId(w)]])]
    /\ pc' = [pc EXCEPT ![w] = "claimed"]
    /\ last' = [Call("mark_as_processing", HeldId(w)) EXCEPT !.worker = w]
    /\ UNCHANGED <<tenants, session, orders, now, outcome, inserts, conflicts, mutations, ingests>>

\* the apply succeeded: mark_as_completed() and update()
Complete(w) ==
    /\ pc[w] = "claimed"
    /\ LET obj == mark_as_completed(HeldRow(w), now) IN
         events' = update(events, HeldId(w), HeldRow(w), obj)
    /\ mutations' = Bump(mutations, HeldRow(w).idempotency_key)
    /\ held' = [held EXCEPT ![w] = None]
    /\ pc' = [pc EXCEPT ![w] = "idle"]
    /\ last' = [Call("mark_as_completed", HeldId(w)) EXCEPT !.worker = w]
    /\ UNCHANGED <<tenants, session, orders, now, outcome, inserts, conflicts, ingests>>

\* the apply failed: mark_as_failed(error_message, max_retries) and update()
Fail(w, error_message, max_retries) ==
    /\ pc[w] = "claimed"
    /\ HeldRow(w).retry_count < MaxAttempts
    /\ LET obj == mark_as_failed(HeldRow(w), error_message, max_retries, now) IN
         events' = update(events, HeldId(w), HeldRow(w), obj)
    /\ held' = [held EXCEPT ![w] = None]
    /\ pc' = [pc EXCEPT ![w] = "idle"]
    /\ last' = [Call("mark_as_failed", HeldId(w)) EXCEPT
                   !.worker = w, !.error_message = Some(error_message),
                   !.max_retries = max_retries]
    /\ UNCHANGED <<tenants, session, orders, now, outcome, inserts, conflicts, mutations, ingests>>

\* a retry sweep runs get_failed_retriable_events(max_retries) and takes one
\* of the events it returned into its session
SelectFailed(w, max_retries) ==
    /\ pc[w] = "idle"
    /\ \E r \in get_failed_retriable_events(max_retries) :
         \/ /\ r = <<>>
            /\ last' = [Call("get_failed_retriable_events", 0) EXCEPT
                           !.worker = w, !.max_retries = max_retries, !.result = r]
            /\ UNCHANGED <<held, pc>>
         \/ \E n \in 1..Len(r) :
              /\ held' = [held EXCEPT ![w] = Copy(r[n])]
              /\ pc' = [pc EXCEPT ![w] = "sweeping"]
              /\ last' = [Call("get_failed_retriable_events", r[n]) EXCEPT
                             !.worker = w, !.max_retries = max_retries, !.result = r]
    /\ UNCHANGED <<tenants, session, orders, events, now, outcome, inserts, conflicts, mutations, ingests>>

\* the sweep releases it: reset_for_retry() and update()
Reset(w) ==
    /\ pc[w] = "sweeping"
    /\ LET obj == reset_for_retry(HeldRow(w)) IN
         events' = update(events, HeldId(w), HeldRow(w), obj)
    /\ held' = [held EXCEPT ![w] = None]
    /\ pc' = [pc EXCEPT ![w] = "idle"]
    /\ last' = [Call("reset_for_retry", HeldId(w)) EXCEPT !.worker = w]
    /\ UNCHANGED <<tenants, session, orders, now, outcome, inserts, conflicts, mutations, ingests>>

NextWorkers ==
    \/ Tick
    \/ \E d \in DeliveriesOf(1) : CreateEvent(d)
    \/ \E w \in Workers : SelectPending(w)
    \/ \E w \in Workers : Claim(w)
    \/ \E w \in Workers : Complete(w)
    \/ \E w \in Workers : Fail(w, "timeout", SmallMaxRetries)
    \/ \E w \in Workers : SelectFailed(w, SmallMaxRetries)
    \/ \E w \in Workers : Reset(w)

SpecWorkers == Init /\ [][NextWorkers]_vars

\* C6: a claim takes effect for one worker only (the other sees zero rows
\* affected and abandons), so no event is being processed by two workers at
\* once.
C6_ClaimsAreExclusive ==
    \A w1, w2 \in Workers :
        (w1 # w2 /\ pc[w1] = "claimed" /\ pc[w2] = "claimed")
            => HeldId(w1) # HeldId(w2)

\* C11: the retry sweep selects and resets a failed event only once the time
\* since its last attempt exceeds its backoff delay.  Stated for a sweep that
\* directly follows the failure: no time has passed, so the event that just
\* failed is not among the events selected.
C11_SweepWaitsForBackoff ==
    [][(last.op = "mark_as_failed" /\ last'.op = "get_failed_retriable_events") =>
          LET i == last.id
              elapsed == now' - now
          IN (/\ events[i].status = FAILED
              /\ elapsed <= backoff_delay(events[i].retry_count))
                 => \A n \in 1 .. Len(last'.result) : last'.result[n] # i]_vars

----------------------------------------------------------------------------
\* Workers that may die while they hold a claimed event (spec.md 5), under
\* fair scheduling: every worker and sweep that can take its next step does
\* so eventually, and an apply that has started ends

\* the worker dies mid-apply: its claim stays in the store, its session is gone
Crash(w) ==
    /\ pc[w] = "claimed"
    /\ held' = [held EXCEPT ![w] = None]
    /\ pc' = [pc EXCEPT ![w] = "idle"]
    /\ last' = [Call("crash", HeldId(w)) EXCEPT !.worker = w]
    /\ UNCHANGED <<tenants, session, orders, events, now, outcome, inserts, conflicts, mutations, ingests>>

FirstDelivery == CHOOSE d \in Deliveries : d.tenant_id = 1 /\ d.timestamp = 0

NextRecovery ==
    \/ Tick
    \/ CreateEvent(FirstDelivery)
    \/ \E w \in Workers : SelectPending(w)
    \/ \E w \in Workers : Claim(w)
    \/ \E w \in Workers : Complete(w)
    \/ \E w \in Workers : Fail(w, "timeout", SmallMaxRetries)
    \/ \E w \in Workers : Crash(w)
    \/ \E w \in Workers : SelectFailed(w, SmallMaxRetries)
    \/ \E w \in Workers : Reset(w)

FairRecovery ==
    /\ WF_vars(Tick)
    /\ \A w \in Workers :
         /\ WF_vars(SelectPending(w))
         /\ WF_vars(Claim(w))
         /\ WF_vars(Complete(w) \/ Fail(w, "timeout", SmallMaxRetries))
         /\ WF_vars(SelectFailed(w, SmallMaxRetries))
         /\ WF_vars(Reset(w))

SpecRecovery == Init /\ [][NextRecovery]_vars /\ FairRecovery

\* the event is in processing and no live worker holds it
StuckInProcessing(i) ==
    /\ i \in Ids
    /\ events[i].status = PROCESSING
    /\ \A w \in Workers : held[w] = None \/ HeldId(w) # i

\* C13: an event stuck in processing (its worker gone) is eventually
\* reverted to failed by the recovery sweep; none stays in processing forever.
C13_StuckProcessingReverted ==
    \A i \in 1 .. Cardinality(Keys) :
        StuckInProcessing(i) ~> (i \in Ids /\ events[i].status = FAILED)

----------------------------------------------------------------------------
\* Workers and retry sweeps that never die, under the same fair scheduling

NextFairWorkers ==
    \/ Tick
    \/ CreateEvent(FirstDelivery)
    \/ \E w \in Workers : SelectPending(w)
    \/ \E w \in Workers : Claim(w)
    \/ \E w \in Workers : Complete(w)
    \/ \E w \in Workers : Fail(w, "timeout", SmallMaxRetries)
    \/ \E w \in Workers : SelectFailed(w, SmallMaxRetries)
    \/ \E w \in Workers : Reset(w)

SpecFairWorkers == Init /\ [][NextFairWorkers]_vars /\ FairRecovery

\* every accepted event reaches completed or dead_letter
EventuallyTerminal ==
    \A i \in 1 .. Cardinality(Keys) :
        (i \in Ids) ~> (i \in Ids /\ is_terminal(events[i]))

\* every failure of an event counts: it raises the stored retry_count by one
\* and dead-letters the event exactly when the count reaches max_retries
EveryFailureCounts ==
    [][last'.op = "mark_as_failed" =>
          LET i == last'.id IN
          /\ events'[i].retry_count = events[i].retry_count + 1
          /\ events'[i].status = DEAD_LETTER
                <=> events[i].retry_count + 1 >= last'.max_retries]_vars

\* C28: with workers and sweeps scheduled fairly, every accepted event
\* reaches a terminal state: one whose apply always fails is dead-lettered
\* on its max_retries-th failure, after at most max_retries - 1 retries, and
\* one whose apply succeeds is completed; none stays pending or failed.
C28_EveryEventTerminates ==
    EveryFailureCounts /\ EventuallyTerminal

----------------------------------------------------------------------------
\* The events table under calls on its rows, and the retry sweep's selection

\* EventRepository.get_failed_retriable_events(max_retries)
SelectFailedRetriable(max_retries) ==
    /\ \E r \in get_failed_retriable_events(max_retries) :
         last' = [Call("get_failed_retriable_events", 0) EXCEPT
                     !.max_retries = max_retries, !.result = r]
    /\ UNCHANGED <<tenants, session, orders, events, now, workerVars>>

NextTable ==
    \/ Tick
    \/ \E d \in DeliveriesOf(1) : CreateEvent(d)
    \/ \E i \in Ids : MarkAsProcessing(i)
    \/ \E i \in Ids : MarkAsCompleted(i)
    \/ \E i \in Ids, r \in MaxRetriesArgs :
          events[i].retry_count < MaxAttempts /\ MarkAsFailed(i, "timeout", r)
    \/ \E i \in Ids : ResetForRetry(i)
    \/ \E r \in MaxRetriesArgs : SelectFailedRetriable(r)

SpecTable == Init /\ [][NextTable]_vars

\* C10: get_failed_retriable_events(max_retries) returns exactly the events
\* that are failed with retry_count < max_retries, each once, in ascending
\* received_at; no event in dead_letter, pending, processing or completed is
\* returned, whatever its retry_count.
C10_SweepSelection ==
    last.op = "get_failed_retriable_events" =>
        LET r == last.result
            returned == { r[n] : n \in DOMAIN r }
        IN  /\ returned \subseteq Ids
            /\ \A i \in Ids :
                  i \in returned <=> /\ events[i].status = FAILED
                                     /\ events[i].retry_count < last.max_retries
            /\ \A a, b \in DOMAIN r :
                  a < b => /\ r[a] # r[b]
                           /\ events[r[a]].received_at <= events[r[b]].received_at
            /\ \A i \in returned :
                  events[i].status \notin {DEAD_LETTER, PENDING, PROCESSING, COMPLETED}

\* the sweep returned two failed events, the older one first
C10_Witness ==
    /\ last.op = "get_failed_retriable_events"
    /\ Len(last.result) = 2
    /\ events[last.result[1]].received_at < events[last.result[2]].received_at
    /\ \E i \in Ids : events[i].retry_count = 2

----------------------------------------------------------------------------
\* One event record under any calls of its methods and retry sweeps that all
\* use the same max_retries, the default one

NextRetry ==
    \/ \E d \in DeliveriesOf(1) : events = <<>> /\ CreateEvent(d)
    \/ \E i \in Ids : MarkAsProcessing(i)
    \/ \E i \in Ids : MarkAsCompleted(i)
    \/ \E i \in Ids, m \in ErrorMessages :
          /\ events[i].retry_count < MaxRetryCount
          /\ MarkAsFailed(i, m, MAX_RETRY_ATTEMPTS)
    \/ \E i \in Ids : ResetForRetry(i)
    \/ SelectFailedRetriable(MAX_RETRY_ATTEMPTS)

SpecRetry == Init /\ [][NextRetry]_vars

\* C27: with one max_retries for every failure call and for the sweep, a
\* failed event has retry_count < max_retries and a dead_letter event has
\* retry_count >= max_retries; so the sweep returns every event for which
\* is_retriable() is true.
C27_FailedWithinBudget ==
    /\ \A i \in Ids :
          /\ events[i].status = FAILED => events[i].retry_count < MAX_RETRY_ATTEMPTS
          /\ events[i].status = DEAD_LETTER => events[i].retry_count >= MAX_RETRY_ATTEMPTS
    /\ last.op = "get_failed_retriable_events" =>
          \A i \in Ids :
              is_retriable(events[i]) => \E n \in DOMAIN last.result : last.result[n] = i

\* the sweep returned an event on its last retry
C27_Witness ==
    /\ last.op = "get_failed_retriable_events"
    /\ last.result = <<1>>
    /\ is_retriable(events[1])
    /\ events[1].retry_count = MAX_RETRY_ATTEMPTS - 1

----------------------------------------------------------------------------
\* Orders (app/models/order.py) and their repository
\* (app/repositories/order_repository.py, base_repository.py)

MaxOrders == 3          \* rows of table "orders"

OrderIds == 1 .. Len(orders)

TenantIds == {1, 2}
ShopifyOrderIds == {12345, 67890}

\* columns of Order that are NOT NULL and have no default
RequiredColumns == {"order_number", "total_price", "order_created_at"}

\* data maps given to upsert: a new order, its later state, the same with a
\* tenant_id or a shopify_order_id among the keys, and a partial update.
\* The value of the nullable column financial_status is an Optional.
OrderData ==
    [order_number |-> "1001", total_price |-> 9999, order_created_at |-> 0,
     financial_status |-> Some("pending")]

DataArgs ==
    { OrderData,
      [OrderData EXCEPT !.financial_status = Some("paid")],
      [financial_status |-> Some("paid")],
      [financial_status |-> Some("paid"), tenant_id |-> 2],
      [financial_status |-> Some("paid"), shopify_order_id |-> 67890] }

IntegrityError == "IntegrityError"
TypeError == "TypeError"

\* Order(tenant_id=..., shopify_order_id=..., **data): currency defaults to USD
Order(tenant_id, shopify_order_id, data) ==
    LET given(column, default) == IF column \in DOMAIN data THEN data[column] ELSE default
    IN [ tenant_id        |-> tenant_id,
         shopify_order_id |-> shopify_order_id,
         order_number     |-> given("order_number", "NULL"),
         total_price      |-> given("total_price", -1),
         order_created_at |-> given("order_created_at", -1),
         currency         |-> given("currency", "USD"),
         financial_status |-> given("financial_status", None) ]

\* for key, value in data.items(): setattr(order, key, value)
setattrs(order, data) ==
    [column \in DOMAIN order |->
        IF column \in DOMAIN data THEN data[column] ELSE order[column]]

\* idx_orders_unique: row id (0 for a new row) would share the
\* (tenant_id, shopify_order_id) of another row
OrderUniqueViolation(rows, id, obj) ==
    \E i \in 1 .. Len(rows) :
        /\ i # id
        /\ rows[i].tenant_id = obj.tenant_id
        /\ rows[i].shopify_order_id = obj.shopify_order_id

\* OrderRepository.get_by_shopify_id, matching on the order id alone
get_by_shopify_id_any_tenant(rows, tenant_id, shopify_order_id) ==
    LET found == { i \in 1 .. Len(rows) : rows[i].shopify_order_id = shopify_order_id }
    IN IF found = {} THEN None
       ELSE Some(CHOOSE i \in found : \A j \in found : i <= j)

\* OrderRepository.get_by_shopify_id: the id of the first matching row, or None
get_by_shopify_id(rows, tenant_id, shopify_order_id) ==
    LET found == { i \in 1 .. Len(rows) :
                      /\ rows[i].tenant_id = tenant_id
                      /\ rows[i].shopify_order_id = shopify_order_id }
    IN IF found = {} THEN None
       ELSE Some(CHOOSE i \in found : \A j \in found : i <= j)

\* OrderRepository.upsert: the table afterwards, and the id of the order
\* returned or the exception raised
upsert(rows, tenant_id, shopify_order_id, data) ==
    LET order == get_by_shopify_id(rows, tenant_id, shopify_order_id) IN
    IF order # None
    THEN LET id == order[1]
             obj == setattrs(rows[id], data)
         IN IF OrderUniqueViolation(rows, id, obj)
            THEN [rows |-> rows, call |-> Raise(IntegrityError)]
            ELSE [rows |-> [rows EXCEPT ![id] = obj], call |-> Return(id)]
    ELSE IF DOMAIN data \cap {"tenant_id", "shopify_order_id"} # {}
         THEN [rows |-> rows, call |-> Raise(TypeError)]
         ELSE IF ~(RequiredColumns \subseteq DOMAIN data)
              THEN [rows |-> rows, call |-> Raise(IntegrityError)]
              ELSE [rows |-> Append(rows, Order(tenant_id, shopify_order_id, data)),
                    call |-> Return(Len(rows) + 1)]

\* BaseRepository.get
get(rows, id) == IF id \in 1 .. Len(rows) THEN Some(id) ELSE None

\* BaseRepository.get_by_tenant
get_by_tenant(rows, tenant_id, id) ==
    IF id \in 1 .. Len(rows) /\ rows[id].tenant_id = tenant_id THEN Some(id) ELSE None

\* BaseRepository.list_by_tenant
list_by_tenant(rows, tenant_id) ==
    { i \in 1 .. Len(rows) : rows[i].tenant_id = tenant_id }

Upsert(tenant_id, shopify_order_id, data) ==
    /\ LET r == upsert(orders, tenant_id, shopify_order_id, data) IN
         /\ orders' = r.rows
         /\ last' = Returned("upsert", <<tenant_id, shopify_order_id, data>>, r.call)
    /\ UNCHANGED <<events, now, workerVars, tenants, session>>

Get(id) ==
    /\ last' = Returned("get", <<id>>, Return(get(orders, id)))
    /\ UNCHANGED <<events, now, workerVars, orders, tenants, session>>

GetByTenant(tenant_id, id) ==
    /\ last' = Returned("get_by_tenant", <<tenant_id, id>>,
                        Return(get_by_tenant(orders, tenant_id, id)))
    /\ UNCHANGED <<events, now, workerVars, orders, tenants, session>>

ListByTenant(tenant_id) ==
    /\ last' = Returned("list_by_tenant", <<tenant_id>>,
                        Return(list_by_tenant(orders, tenant_id)))
    /\ UNCHANGED <<events, now, workerVars, orders, tenants, session>>

NextOrders ==
    \/ \E tenant_id \in TenantIds, shopify_order_id \in ShopifyOrderIds, data \in DataArgs :
          /\ Len(upsert(orders, tenant_id, shopify_order_id, data).rows) <= MaxOrders
          /\ Upsert(tenant_id, shopify_order_id, data)
    \/ \E id \in OrderIds : Get(id)
    \/ \E tenant_id \in TenantIds, id \in OrderIds : GetByTenant(tenant_id, id)
    \/ \E tenant_id \in TenantIds : ListByTenant(tenant_id)

SpecOrders == Init /\ [][NextOrders]_vars

\* the rows holding (tenant_id, shopify_order_id)
OrdersOf(rows, tenant_id, shopify_order_id) ==
    { i \in 1 .. Len(rows) : /\ rows[i].tenant_id = tenant_id
                             /\ rows[i].shopify_order_id = shopify_order_id }

\* C15: whatever upserts were made, no two Order rows share a
\* (tenant_id, shopify_order_id); an upsert on a key that has a row updates
\* that row in place (same id, the given fields replaced), and a row is
\* created only when the key had none.
C15_UpsertKeepsOneRowPerKey ==
    [][/\ \A i, j \in 1 .. Len(orders') :
             (/\ orders'[i].tenant_id = orders'[j].tenant_id
              /\ orders'[i].shopify_order_id = orders'[j].shopify_order_id) => i = j
       /\ (last'.op = "upsert" /\ ~last'.raised) =>
             LET existing == OrdersOf(orders, last'.args[1], last'.args[2])
                 data == last'.args[3]
                 id == last'.result[1]
             IN IF existing # {}
                THEN /\ id \in existing
                     /\ Len(orders') = Len(orders)
                     /\ \A column \in DOMAIN data : orders'[id][column] = data[column]
                     /\ \A i \in 1 .. Len(orders) : i # id => orders'[i] = orders[i]
                ELSE /\ orders' = Append(orders, orders'[id])
                     /\ id = Len(orders) + 1
                     /\ orders'[id].tenant_id = last'.args[1]
                     /\ orders'[id].shopify_order_id = last'.args[2]
       /\ (last'.op = "upsert" /\ last'.raised) => orders' = orders]_vars

\* an order was created, then upserted again: still one row, now paid
C15_Witness ==
    /\ last.op = "upsert"
    /\ ~last.raised
    /\ last.args[1] = 1 /\ last.args[2] = 12345
    /\ last.args[3] = [OrderData EXCEPT !.financial_status = Some("paid")]
    /\ Len(orders) = 2
    /\ last.result[1] = 1
    /\ orders[1].financial_status = Some("paid")
    /\ orders[2].tenant_id = 2
    /\ orders[2].shopify_order_id = 12345
    /\ orders[2].financial_status = Some("pending")

TenantIsolationViolationException(requested_tenant_id, actual_tenant_id) ==
    [exception |-> "TenantIsolationViolationException",
     requested_tenant_id |-> requested_tenant_id,
     actual_tenant_id |-> actual_tenant_id]

\* C16: reading, as one tenant, a record that belongs to another tenant
\* raises TenantIsolationViolation with both tenant ids; it neither returns
\* the record nor ends as an empty or not-found result.
C16_CrossTenantReadRaises ==
    (/\ last.op = "get_by_tenant"
     /\ last.args[2] \in OrderIds
     /\ orders[last.args[2]].tenant_id # last.args[1])
    => /\ last.raised
       /\ last.result = Some(TenantIsolationViolationException(
                                last.args[1], orders[last.args[2]].tenant_id))

\* C17: no step changes the tenant_id of a row; an upsert on an existing
\* order leaves its tenant_id and shopify_order_id as they were, whatever
\* the keys of the data map.
C17_UpsertKeepsTenantAndOrderId ==
    [][\A i \in 1 .. Len(orders) :
          /\ orders'[i].tenant_id = orders[i].tenant_id
          /\ last'.op = "upsert" =>
                orders'[i].shopify_order_id = orders[i].shopify_order_id]_vars

----------------------------------------------------------------------------
\* The functions of app/core/idempotency.py and the backoff delay, called on
\* arguments of every kind (specification SpecPure)

TenantIdArgs == {-1, 0, 1, 2}

TextArgs ==
    { <<>>, <<" ">>, <<"order">>, <<"custom", ":", "event">> }

TimestampArgs == {0, 1}

\* keys to parse: well-formed ones, and ones with too few segments or with a
\* first segment that is no number, zero or negative
KeyArgs ==
    { <<"1", ":", "order", ":", "12345", ":", "orders/create">>,
      <<"1", ":", "order", ":", "12345", ":", "orders/create", ":", "a3b5c7d9e1f2">>,
      <<"1", ":", "order", ":", "12345", ":", "custom", ":", "event", ":", "a3b5c7d9e1f2">>,
      <<"1", ":", "order", ":", "12345">>,
      <<"orders/create">>,
      <<>>,
      <<"abc", ":", "order", ":", "12345", ":", "orders/create">>,
      <<":", "order", ":", "12345", ":", "orders/create">>,
      <<"0", ":", "order", ":", "12345", ":", "orders/create">>,
      <<"-1", ":", "order", ":", "12345", ":", "orders/create">>,
      <<" ", "2", ":", "order", ":", "12345", ":", "orders/create">> }

GenerateIdempotencyKey(tenant_id, entity_type, entity_id, event_type, timestamp) ==
    /\ last' = Returned("generate_idempotency_key",
                        <<tenant_id, entity_type, entity_id, event_type, timestamp>>,
                        generate_idempotency_key(tenant_id, entity_type, entity_id,
                                                 event_type, timestamp))
    /\ UNCHANGED <<events, now, workerVars, orders, tenants, session>>

GenerateSimpleIdempotencyKey(tenant_id, entity_type, entity_id, event_type) ==
    /\ last' = Returned("generate_simple_idempotency_key",
                        <<tenant_id, entity_type, entity_id, event_type>>,
                        generate_simple_idempotency_key(tenant_id, entity_type,
                                                        entity_id, event_type))
    /\ UNCHANGED <<events, now, workerVars, orders, tenants, session>>

ParseIdempotencyKey(key) ==
    /\ last' = Returned("parse_idempotency_key", <<key>>, parse_idempotency_key(key))
    /\ UNCHANGED <<events, now, workerVars, orders, tenants, session>>

ValidateIdempotencyKey(key) ==
    /\ last' = Returned("validate_idempotency_key", <<key>>,
                        Return(validate_idempotency_key(key)))
    /\ UNCHANGED <<events, now, workerVars, orders, tenants, session>>

BackoffDelay(retry_count) ==
    /\ last' = Returned("backoff_delay", <<retry_count>>,
                        Return(backoff_delay(retry_count)))
    /\ UNCHANGED <<events, now, workerVars, orders, tenants, session>>

\* a key just generated is one of the keys parsed and validated
KeysAtHand ==
    KeyArgs \cup
    { last.result[1] : x \in { y \in {1} :
         /\ last.op \in {"generate_idempotency_key", "generate_simple_idempotency_key"}
         /\ ~last.raised } }

NextPure ==
    \/ \E tenant_id \in TenantIdArgs, entity_type, entity_id, event_type \in TextArgs,
          timestamp \in TimestampArgs :
          GenerateIdempotencyKey(tenant_id, entity_type, entity_id, event_type, timestamp)
    \/ \E tenant_id \in TenantIdArgs, entity_type, entity_id, event_type \in TextArgs :
          GenerateSimpleIdempotencyKey(tenant_id, entity_type, entity_id, event_type)
    \/ \E key \in KeysAtHand : ParseIdempotencyKey(key)
    \/ \E key \in KeysAtHand : ValidateIdempotencyKey(key)
    \/ \E retry_count \in 0 .. MaxBackoffRetryCount : BackoffDelay(retry_count)

SpecPure == Init /\ [][NextPure]_vars

\* C12: the backoff delay is min(base * 2^retry_count, max) with base 5 and
\* max 300: over retry_count 0..10 it is 5 at retry_count 0, never exceeds 300
\* and never decreases as retry_count grows.
C12_BackoffDelay ==
    last.op = "backoff_delay" =>
        LET retry_count == last.args[1]
            delay == last.result[1]
        IN /\ delay = (IF 5 * 2 ^ retry_count < 300 THEN 5 * 2 ^ retry_count ELSE 300)
           /\ delay <= 300
           /\ (retry_count = 0 => delay = 5)
           /\ \A smaller \in 0 .. retry_count : backoff_delay(smaller) <= delay

\* a delay the ceiling cuts: 5 * 2^6 = 320 is above 300
C12_Witness ==
    /\ last.op = "backoff_delay"
    /\ last.args[1] = 6
    /\ last.result[1] = 300
    /\ 5 * 2 ^ 6 > 300

\* Valid arguments of a key derivation: a positive tenant_id and fields that
\* are not empty once trimmed
ValidKeyArgs(args) ==
    /\ args[1] > 0
    /\ \A n \in 2 .. 4 : strip(args[n]) # <<>>

\* C18: for valid arguments, parsing the derived key gives back tenant_id,
\* entity_type, entity_id and event_type, also when event_type holds ":"; the
\* hash is there for a timestamp-qualified key and None for a simple key.
\* (Stated for an entity_type and an entity_id that hold no ":".)
C18_ParseRecoversDerived ==
    (/\ last.op \in {"generate_idempotency_key", "generate_simple_idempotency_key"}
     /\ ValidKeyArgs(last.args)
     /\ split(last.args[2]) = <<last.args[2]>>
     /\ split(last.args[3]) = <<last.args[3]>>)
    => /\ ~last.raised
       /\ LET parsed == parse_idempotency_key(last.result[1]) IN
            /\ ~parsed.raised
            /\ parsed.value.tenant_id = last.args[1]
            /\ parsed.value.entity_type = last.args[2]
            /\ parsed.value.entity_id = last.args[3]
            /\ parsed.value.event_type = last.args[4]
            /\ (last.op = "generate_idempotency_key" => parsed.value.hash # None)
            /\ (last.op = "generate_simple_idempotency_key" => parsed.value.hash = None)

\* C19: both forms of the derivation raise ValidationException on a tenant_id
\* <= 0 and on an entity_type, entity_id or event_type that is empty or blank.
C19_DeriveValidates ==
    (/\ last.op \in {"generate_idempotency_key", "generate_simple_idempotency_key"}
     /\ ~ValidKeyArgs(last.args))
    => /\ last.raised
       /\ last.result = Some(ValidationException)

\* C20: parse raises on a key of fewer than four segments and on one whose
\* first segment is not a positive integer (0 and negatives included), and
\* on no other key; validate returns TRUE exactly when parse succeeds.
C20_ParseRejectsMalformed ==
    /\ last.op = "parse_idempotency_key" =>
          LET parts == split(last.args[1]) IN
          last.raised <=> \/ Len(parts) < 4
                          \/ int(parts[1]) = None
                          \/ int(parts[1])[1] <= 0
    /\ last.op = "validate_idempotency_key" =>
          (last.result[1] <=> ~parse_idempotency_key(last.args[1]).raised)

----------------------------------------------------------------------------
\* Two derivations of a key, one after the other (specification SpecDerive)

\* both forms of the key are derived for a delivery with this timestamp, then
\* again for the same delivery with the timestamp `later`
GenerateTwice(tenant_id, entity_type, entity_id, event_type, timestamp, later) ==
    /\ last' = [Call("generate_idempotency_key", 0) EXCEPT
                   !.args = <<tenant_id, entity_type, entity_id, event_type,
                              timestamp, later>>,
                   !.result =
                      [ first  |-> generate_idempotency_key(
                                      tenant_id, entity_type, entity_id, event_type,
                                      timestamp),
                        second |-> generate_idempotency_key(
                                      tenant_id, entity_type, entity_id, event_type,
                                      later),
                        simple_first  |-> generate_simple_idempotency_key(
                                      tenant_id, entity_type, entity_id, event_type),
                        simple_second |-> generate_simple_idempotency_key(
                                      tenant_id, entity_type, entity_id, event_type) ]]
    /\ UNCHANGED <<events, now, workerVars, orders, tenants, session>>

NextDerive ==
    \E tenant_id \in TenantIdArgs, entity_type, entity_id, event_type \in TextArgs,
       timestamp, later \in TimestampArgs :
       GenerateTwice(tenant_id, entity_type, entity_id, event_type, timestamp, later)

SpecDerive == Init /\ [][NextDerive]_vars

MaxTenants == 2

NotFoundException == "NotFoundException"
ConflictException == "ConflictException"

\* shopify_domain arguments, as pieces: two shop domains, a domain of another
\* site, the empty string, and a shop domain followed by something else
DomainArgs ==
    { <<"test", ".myshopify.com">>, <<"other", ".myshopify.com">>,
      <<"invalid-domain", ".com">>, <<>>,
      <<"test", ".myshopify.com", ".evil.io">> }

NameArgs == {"Test Store"}

TenantIdsAsked == 1..(MaxTenants + 1)

\* s.endswith(suffix), suffix being one piece
endswith(s, suffix) == Len(s) > 0 /\ s[Len(s)] = suffix

\* encrypt_token(plain_token): the ciphertext is not the plain text
encrypt_token(plain_token) == <<"fernet", plain_token>>

\* Tenant(name=, shopify_domain=, shopify_access_token=, webhook_secret=, status=)
Tenant(name, shopify_domain, shopify_access_token, webhook_secret, status) ==
    [ name                 |-> name,
      shopify_domain       |-> shopify_domain,
      shopify_access_token |-> shopify_access_token,
      webhook_secret       |-> webhook_secret,
      status               |-> status ]

\* a table without the unique index on shopify_domain
TenantUniqueViolation_dropped(rows, obj) == FALSE

\* shopify_domain is unique=True: the insert of obj is refused when a row
\* holds the same domain
TenantUniqueViolation(rows, obj) ==
    \E i \in 1..Len(rows) : rows[i].shopify_domain = obj.shopify_domain

\* TenantRepository.get_by_domain: .first(), an Optional id
get_by_domain(rows, shopify_domain) ==
    LET found == { i \in 1..Len(rows) : rows[i].shopify_domain = shopify_domain }
    IN IF found = {} THEN None ELSE Some(CHOOSE i \in found : \A j \in found : i <= j)

\* a listing that leaves the status filter out
get_active_tenants_unfiltered(rows) == 1..Len(rows)

\* TenantRepository.get_active_tenants: the ids of the rows with status active
get_active_tenants(rows) == { i \in 1..Len(rows) : rows[i].status = "active" }

\* TenantService.get_tenant
get_tenant(rows, tenant_id) ==
    IF tenant_id \in 1..Len(rows) THEN Return(tenant_id) ELSE Raise(NotFoundException)

\* the part of register_tenant before the insert: the domain format and the
\* lookup of an existing tenant
register_tenant_checks(rows, shopify_domain) ==
    IF shopify_domain = <<>> \/ ~endswith(shopify_domain, ".myshopify.com")
    THEN Raise(ValidationException)
    ELSE IF get_by_domain(rows, shopify_domain) # None
         THEN Raise(ConflictException)
         ELSE Return(None)

\* the rest of register_tenant: encrypt, create (add, flush, refresh), commit
register_tenant_create(rows, name, shopify_domain, shopify_access_token) ==
    LET tenant == Tenant(name, shopify_domain, encrypt_token(shopify_access_token),
                         None, "active")
    IN IF TenantUniqueViolation(rows, tenant)
       THEN [rows |-> rows, call |-> Raise(IntegrityError)]
       ELSE [rows |-> Append(rows, tenant), call |-> Return(Len(rows) + 1)]

\* deactivate_tenant and reactivate_tenant: get_tenant, set the status, commit
set_status(rows, tenant_id, status) ==
    IF get_tenant(rows, tenant_id).raised
    THEN [rows |-> rows, call |-> get_tenant(rows, tenant_id)]
    ELSE [rows |-> [rows EXCEPT ![tenant_id].status = status],
          call |-> Return(tenant_id)]

deactivate_tenant(rows, tenant_id) == set_status(rows, tenant_id, "suspended")
reactivate_tenant(rows, tenant_id) == set_status(rows, tenant_id, "active")

\* the record of a call of worker w
ReturnedTo(w, op, args, r) == [Returned(op, args, r) EXCEPT !.worker = w]

\* register_tenant of worker w up to the lookup; the call ends here when a
\* check raises
RegisterTenant(w, name, shopify_domain) ==
    /\ pc[w] = "idle"
    /\ LET checks == register_tenant_checks(tenants, shopify_domain)
       IN IF checks.raised
          THEN /\ last' = ReturnedTo(w, "register_tenant", <<name, shopify_domain>>, checks)
               /\ UNCHANGED <<pc, held>>
          ELSE /\ pc' = [pc EXCEPT ![w] = "registering"]
               /\ held' = [held EXCEPT ![w] = Some(<<name, shopify_domain>>)]
               /\ last' = [Call("get_by_domain", 0) EXCEPT
                              !.worker = w, !.args = <<name, shopify_domain>>]
    /\ UNCHANGED <<events, now, outcome, inserts, conflicts, mutations, ingests,
                   orders, tenants, session>>

\* register_tenant of worker w from the insert on
RegisterTenantCreate(w) ==
    /\ pc[w] = "registering"
    /\ LET args == held[w][1]
           r == register_tenant_create(tenants, args[1], args[2], "token")
       IN /\ tenants' = r.rows
          /\ last' = ReturnedTo(w, "register_tenant", args, r.call)
    /\ pc' = [pc EXCEPT ![w] = "idle"]
    /\ held' = [held EXCEPT ![w] = None]
    /\ UNCHANGED <<events, now, outcome, inserts, conflicts, mutations, ingests,
                   orders, session>>

DeactivateTenant(tenant_id) ==
    /\ LET r == deactivate_tenant(tenants, tenant_id)
       IN /\ tenants' = r.rows
          /\ last' = Returned("deactivate_tenant", <<tenant_id>>, r.call)
    /\ UNCHANGED <<events, now, workerVars, orders, session>>

ReactivateTenant(tenant_id) ==
    /\ LET r == reactivate_tenant(tenants, tenant_id)
       IN /\ tenants' = r.rows
          /\ last' = Returned("reactivate_tenant", <<tenant_id>>, r.call)
    /\ UNCHANGED <<events, now, workerVars, orders, session>>

GetActiveTenants ==
    /\ last' = Returned("get_active_tenants", <<>>, Return(get_active_tenants(tenants)))
    /\ UNCHANGED <<events, now, workerVars, orders, tenants, session>>

NextTenants ==
    \/ \E w \in Workers, name \in NameArgs, shopify_domain \in DomainArgs :
          RegisterTenant(w, name, shopify_domain)
    \/ \E w \in Workers : RegisterTenantCreate(w)
    \/ \E tenant_id \in TenantIdsAsked : DeactivateTenant(tenant_id)
    \/ \E tenant_id \in TenantIdsAsked : ReactivateTenant(tenant_id)
    \/ GetActiveTenants

SpecTenants == Init /\ [][NextTenants]_vars

\* no two tenants hold the same shopify_domain
DomainsUnique(rows) ==
    \A i, j \in 1..Len(rows) : rows[i].shopify_domain = rows[j].shopify_domain => i = j

C25_ActiveListing ==
    [][ /\ \A i \in 1..Len(tenants') : tenants'[i].status \in {"active", "suspended"}
        /\ Len(tenants') >= Len(tenants)
        /\ \A i \in 1..Len(tenants) :
              tenants'[i].shopify_domain = tenants[i].shopify_domain
        /\ last'.op = "get_active_tenants" =>
              last'.result = Some({ i \in 1..Len(tenants) : tenants[i].status = "active" })
        /\ (last'.op = "deactivate_tenant" /\ ~last'.raised) =>
              /\ tenants'[last'.args[1]].status = "suspended"
              /\ last'.args[1] \notin get_active_tenants(tenants')
        /\ (last'.op = "reactivate_tenant" /\ ~last'.raised) =>
              /\ tenants'[last'.args[1]].status = "active"
              /\ last'.args[1] \in get_active_tenants(tenants')
        /\ (last'.op = "register_tenant" /\ ~last'.raised) =>
              Len(tenants') \in get_active_tenants(tenants')
      ]_vars

\* two tenants, the first deactivated: the listing holds the second alone
C25_Witness ==
    /\ last.op = "get_active_tenants"
    /\ Len(tenants) = 2
    /\ tenants[1].status = "suspended"
    /\ last.result = Some({2})

\* ---------------------------------------------------------------------------
\* Session blocks: DatabaseSession and get_db
\* ---------------------------------------------------------------------------
\* events and orders are the committed tables.  A session holds its own view
\* of them: what it flushed is in session.events and session.orders and
\* reaches the tables at commit.

SessionKinds == {"DatabaseSession", "get_db"}

\* the exception a block ends with, if any
ExcTypes == {None, Some("ValueError")}

OperationalError == "OperationalError"

\* SessionLocal(): a session on the committed tables, its block running
SessionLocal(kind) ==
    [state |-> "open", block |-> TRUE, kind |-> kind, events |-> events,
     orders |-> orders]

\* Session.rollback: the flushed changes are dropped
rollback(s) == [s EXCEPT !.events = events, !.orders = orders]

\* Session.close
close(s) == [s EXCEPT !.state = "closed"]

\* an __exit__ that commits whatever way the block ended
DatabaseSession_exit_committing(s, exc_type, commit_raises) ==
    [events |-> s.events, orders |-> s.orders,
     session |-> [close(s) EXCEPT !.block = FALSE],
     call |-> IF exc_type # None THEN Raise(exc_type[1]) ELSE Return(None)]

\* DatabaseSession.__exit__: rollback if the block raised, else commit; then
\* close.  Nothing catches an exception of commit, so close is not reached
\* when commit raises.  The result holds the tables, the session and how the
\* with statement ends.
DatabaseSession_exit(s, exc_type, commit_raises) ==
    IF exc_type # None
    THEN [events |-> events, orders |-> orders,
          session |-> [close(rollback(s)) EXCEPT !.block = FALSE],
          call |-> Raise(exc_type[1])]
    ELSE IF commit_raises
         THEN [events |-> events, orders |-> orders,
               session |-> [s EXCEPT !.block = FALSE],
               call |-> Raise(OperationalError)]
         ELSE [events |-> s.events, orders |-> s.orders,
               session |-> [close(s) EXCEPT !.block = FALSE],
               call |-> Return(None)]

\* get_db after the yield: commit; except Exception: rollback, raise;
\* finally: close
get_db_exit(s, exc_type, commit_raises) ==
    IF exc_type # None
    THEN [events |-> events, orders |-> orders,
          session |-> [close(rollback(s)) EXCEPT !.block = FALSE],
          call |-> Raise(exc_type[1])]
    ELSE IF commit_raises
         THEN [events |-> events, orders |-> orders,
               session |-> [close(rollback(s)) EXCEPT !.block = FALSE],
               call |-> Raise(OperationalError)]
         ELSE [events |-> s.events, orders |-> s.orders,
               session |-> [close(s) EXCEPT !.block = FALSE],
               call |-> Return(None)]

\* the order an event is about
ShopifyOrderIdOf(ev) == int(Text(ev.entity_id))[1]

\* what the session has flushed and the tables do not hold: the events it
\* completed, and whether it wrote an order
Flushed(s) ==
    [completed |-> { i \in 1..Len(s.events) :
                        /\ s.events[i].status = COMPLETED
                        /\ i \in 1..Len(events) => events[i].status # COMPLETED },
     orders |-> s.orders # orders]

\* DatabaseSession.__enter__, or get_db up to its yield
Enter(kind) ==
    /\ ~session.block
    /\ session' = SessionLocal(kind)
    /\ last' = Returned("enter", <<kind>>, Return(None))
    /\ UNCHANGED <<events, now, workerVars, orders, tenants>>

\* inside the block: EventRepository.create
InCreateEvent(d) ==
    /\ session.block
    /\ ~UniqueViolation(session.events, NewEvent(d, KeyOf(d), now))
    /\ session' = [session EXCEPT !.events = create(@, NewEvent(d, KeyOf(d), now))]
    /\ last' = Call("create", Len(session.events) + 1)
    /\ UNCHANGED <<events, now, workerVars, orders, tenants>>

\* inside the block: the event is taken up
InMarkAsProcessing(i) ==
    /\ session.block
    /\ i \in 1..Len(session.events)
    /\ session.events[i].status = PENDING
    /\ session' = [session EXCEPT !.events[i] = mark_as_processing(@)]
    /\ last' = Call("mark_as_processing", i)
    /\ UNCHANGED <<events, now, workerVars, orders, tenants>>

\* inside the block: the entity mutation of event i, OrderRepository.upsert
InUpsert(i, data) ==
    /\ session.block
    /\ i \in 1..Len(session.events)
    /\ session.events[i].status = PROCESSING
    /\ LET ev == session.events[i]
           r == upsert(session.orders, ev.tenant_id, ShopifyOrderIdOf(ev), data)
       IN /\ ~r.call.raised
          /\ session' = [session EXCEPT !.orders = r.rows]
          /\ last' = [Returned("upsert", <<ev.tenant_id, ShopifyOrderIdOf(ev), data>>, r.call)
                         EXCEPT !.id = i]
    /\ UNCHANGED <<events, now, workerVars, orders, tenants>>

\* inside the block: the transition to completed, after the entity mutation
InMarkAsCompleted(i) ==
    /\ session.block
    /\ i \in 1..Len(session.events)
    /\ session.events[i].status = PROCESSING
    /\ last.op = "upsert" /\ last.id = i
    /\ session' = [session EXCEPT !.events[i] = mark_as_completed(@, now)]
    /\ last' = Call("mark_as_completed", i)
    /\ UNCHANGED <<events, now, workerVars, orders, tenants>>

\* the block of a DatabaseSession ends, with exc_type or without
Exit(exc_type, commit_raises) ==
    /\ session.block
    /\ session.kind = "DatabaseSession"
    /\ LET r == DatabaseSession_exit(session, exc_type, commit_raises)
       IN /\ events' = r.events
          /\ orders' = r.orders
          /\ session' = r.session
          /\ last' = Returned("exit", <<session.kind, exc_type, commit_raises,
                                        Flushed(session)>>, r.call)
    /\ UNCHANGED <<now, workerVars, tenants>>

\* the request served with get_db ends, with exc_type or without
GetDbExit(exc_type, commit_raises) ==
    /\ session.block
    /\ session.kind = "get_db"
    /\ LET r == get_db_exit(session, exc_type, commit_raises)
       IN /\ events' = r.events
          /\ orders' = r.orders
          /\ session' = r.session
          /\ last' = Returned("exit", <<session.kind, exc_type, commit_raises,
                                        Flushed(session)>>, r.call)
    /\ UNCHANGED <<now, workerVars, tenants>>

\* the data of the entity mutation: the order as first seen and as paid
SessionDataArgs == { OrderData, [OrderData EXCEPT !.financial_status = Some("paid")] }

NextSession ==
    \/ \E kind \in SessionKinds : Enter(kind)
    \/ \E d \in DeliveriesOf(1) : InCreateEvent(d)
    \/ \E i \in 1..Cardinality(DeliveriesOf(1)) : InMarkAsProcessing(i)
    \/ \E i \in 1..Cardinality(DeliveriesOf(1)), data \in SessionDataArgs : InUpsert(i, data)
    \/ \E i \in 1..Cardinality(DeliveriesOf(1)) : InMarkAsCompleted(i)
    \/ \E exc_type \in ExcTypes, commit_raises \in BOOLEAN : Exit(exc_type, commit_raises)
    \/ \E exc_type \in ExcTypes, commit_raises \in BOOLEAN : GetDbExit(exc_type, commit_raises)

SpecSession == Init /\ [][NextSession]_vars

\* C23: the status transition of an event and its entity mutation, made in
\* one session block, reach the tables together or not at all.  The tables
\* change only when a block ends without an exception and its commit goes
\* through, and then they hold all the block flushed; when the block raises
\* they are left as they were, each event in its committed status.  No event
\* is completed in the table without its order in the table.
C23_TransitionAndUpsertAtomic ==
    [][ /\ (events' # events \/ orders' # orders) =>
              /\ last'.op = "exit"
              /\ last'.args[2] = None
              /\ ~last'.raised
        /\ (last'.op = "exit" /\ ~last'.raised) =>
              /\ last'.args[2] = None
              /\ events' = session.events
              /\ orders' = session.orders
        /\ (last'.op = "exit" /\ last'.args[2] # None) =>
              /\ last'.raised
              /\ events' = events
              /\ orders' = orders
        /\ \A i \in 1..Len(events') :
              events'[i].status = COMPLETED =>
                 get_by_shopify_id(orders', events'[i].tenant_id,
                                   ShopifyOrderIdOf(events'[i])) # None
      ]_vars

\* a block that had flushed the order and the completion of an event raised:
\* the event is still processing in the table and no order is there
C23_Witness ==
    /\ last.op = "exit"
    /\ last.args[2] # None
    /\ last.args[4].completed = {1}
    /\ last.args[4].orders
    /\ Len(events) = 1
    /\ events[1].status = PROCESSING
    /\ orders = <<>>

\* C30: a session opened by DatabaseSession or get_db is closed once its
\* block has ended, on every path: after a commit, after the rollback an
\* exception caused, and when the commit itself raises.
C30_SessionAlwaysClosed ==
    ~session.block => session.state # "open"
====
